---- MODULE Spec2Model ----
(***************************************************************************)
(* Round-trip translation (src/rtt.py): the construction of a              *)
(* LibreTranslateRTT (defaults from the environment, url check, language   *)
(* validation, client handle) and its rtt operation (two sequential        *)
(* translate calls on the client).  The translation client is the external *)
(* collaborator: it is modelled as a stub that records every call and      *)
(* answers it with a text or an error.                                     *)
(***************************************************************************)
EXTENDS Naturals, Sequences, FiniteSets, TLC

\* Python's None, and an argument the caller leaves out (the default applies).
None == "<None>"
Omitted == "<omitted>"

\* ------------------------------------------------------------------ bounds

\* rtt invocations per behaviour.
MaxInvocations == 2

\* ------------------------------------------------------------- input sets

\* Codes outside the supported set: unknown, wrong case, empty.
InvalidCodes == {"xx", "EN", ""}
\* Every code construction is tried with: the 46 codes of rtt.py:11-56 and the
\* unsupported ones.
AllCodes ==
    { "ar", "az", "bg", "bn", "ca", "cs", "da", "de", "el", "en", "eo", "es",
      "et", "fa", "fi", "fr", "ga", "he", "hi", "hu", "id", "it", "ja", "ko",
      "lt", "lv", "ms", "nb", "nl", "pl", "pt", "ro", "ru", "sk", "sl", "sq",
      "sr", "sv", "th", "tl", "tr", "uk", "ur", "vi", "zh", "zt" }
        \cup InvalidCodes
\* The codes rtt is exercised with (a pair with the anchor, without it, equal).
SampleCodes == {"en", "fr"} \cup {"xx"}
UrlValues == {"", "http://localhost:5000"}
ApiKeyValues == {"key"}
\* Texts handed to rtt, and texts the stub client answers with.
Texts == {"", " hi"}
Translations == Texts \cup {"salut"}
\* Errors the client raises.
Errors == {"ConnectionError", "HTTPError"}

\* ---------------------------------------------------------------- program

\* A supported set that lost its last code.
LT_LANGUAGES_WithoutLast ==
    { "ar", "az", "bg", "bn", "ca", "cs", "da", "de", "el", "en", "eo", "es",
      "et", "fa", "fi", "fr", "ga", "he", "hi", "hu", "id", "it", "ja", "ko",
      "lt", "lv", "ms", "nb", "nl", "pl", "pt", "ro", "ru", "sk", "sl", "sq",
      "sr", "sv", "th", "tl", "tr", "uk", "ur", "vi", "zh" }

\* rtt.py:10-57
LT_LANGUAGES ==
    { "ar", "az", "bg", "bn", "ca", "cs", "da", "de", "el", "en", "eo", "es",
      "et", "fa", "fi", "fr", "ga", "he", "hi", "hu", "id", "it", "ja", "ko",
      "lt", "lv", "ms", "nb", "nl", "pl", "pt", "ro", "ru", "sk", "sl", "sq",
      "sr", "sv", "th", "tl", "tr", "uk", "ur", "vi", "zh", "zt" }

VARIABLES
    LT_ENDPOINT,  \* rtt.py:8, read from the environment once
    LT_API_KEY,   \* rtt.py:9, read from the environment once
    stub,         \* the client's behaviour: "identity" or "scripted"
    pc,           \* "new", "failed" (construction raised), "idle", "leg1", "leg2"
    self,         \* the instance: source_lang, target_lang, lt
    ctor,         \* the last construction: resolved arguments and outcome
    text,         \* rtt's argument
    text_t,       \* rtt's local: the intermediate text
    first,        \* index in log of the running invocation's first call
    log,          \* the calls the client received, each with its answer
    outcomes      \* the finished rtt invocations, each with its outcome

vars == <<LT_ENDPOINT, LT_API_KEY, stub, pc, self, ctor, text, text_t, first,
          log, outcomes>>

\* The result of a call or of an rtt invocation.
Pending == [kind |-> "pending", value |-> None]
Returned(r) == [kind |-> "returned", value |-> r]
Raised(e) == [kind |-> "raised", value |-> e]

NoError == [type |-> "none", text |-> "", invalid |-> None, valid |-> {}]

\* rtt.py:110-112
UrlError ==
    [type |-> "ValueError", text |-> "url must be given", invalid |-> None,
     valid |-> {}]

\* rtt.py:116-118: the message names one code and lists the valid set.
LanguageError(invalid) ==
    [type |-> "ValueError", text |-> "Invalid language", invalid |-> invalid,
     valid |-> LT_LANGUAGES]

\* An error raised inside the client's constructor (not by this repository).
ClientError ==
    [type |-> "ClientError", text |-> "", invalid |-> None, valid |-> {}]

\* No instance: the state before a construction succeeds.
NoInstance ==
    [source_lang |-> None, target_lang |-> None,
     lt |-> [url |-> None, api_key |-> None]]

\* rtt.py:92-94: a default applies when the argument is left out.
Default(arg, default) == IF arg = Omitted THEN default ELSE arg

\* A url check by truthiness (not url), which also rejects the empty string.
UrlMissingOrEmpty(url) == url = None \/ url = ""

\* rtt.py:109
UrlMissing(url) == url = None

\* A validation that also wants the anchor language on one side.
LanguagesValidAnchored(source_lang, target_lang) ==
    /\ source_lang \in LT_LANGUAGES
    /\ target_lang \in LT_LANGUAGES
    /\ "en" \in {source_lang, target_lang}

\* rtt.py:115: both codes are members of the set.
LanguagesValid(source_lang, target_lang) ==
    source_lang \in LT_LANGUAGES /\ target_lang \in LT_LANGUAGES

\* A message that always names target_lang.
InvalidLanguageTarget(source_lang, target_lang) == target_lang

\* rtt.py:115: the walrus binds source_lang first and, only when that one is
\* valid, target_lang.
InvalidLanguage(source_lang, target_lang) ==
    IF source_lang \notin LT_LANGUAGES THEN source_lang ELSE target_lang

\* The two checks in the other order.
ValidateLanguagesFirst(source_lang, target_lang, url) ==
    IF ~LanguagesValid(source_lang, target_lang)
    THEN LanguageError(InvalidLanguage(source_lang, target_lang))
    ELSE IF UrlMissing(url) THEN UrlError ELSE NoError

\* rtt.py:109-119: the checks in their order; NoError when all pass.
Validate(source_lang, target_lang, url) ==
    IF UrlMissing(url) THEN UrlError
    ELSE IF ~LanguagesValid(source_lang, target_lang)
         THEN LanguageError(InvalidLanguage(source_lang, target_lang))
         ELSE NoError

\* rtt.py:63-71
RoundTripTranslatorInit(source_lang, target_lang) ==
    [source_lang |-> source_lang, target_lang |-> target_lang]

\* rtt.py:122: the client's constructor is the collaborator's.  rtt.py does
\* not decide what it does with an empty url (the published client asserts
\* that the url is not empty), so both outcomes are kept.
ClientOutcomes(url) == IF url = "" THEN {"created", "raised"} ELSE {"created"}

\* rtt.py:121-122
LibreTranslateRTTInit(source_lang, target_lang, url, api_key) ==
    [source_lang |-> RoundTripTranslatorInit(source_lang, target_lang).source_lang,
     target_lang |-> RoundTripTranslatorInit(source_lang, target_lang).target_lang,
     lt |-> [url |-> url, api_key |-> api_key]]

\* Whitespace stripped from a text.
Strip(t) == IF t = " hi" THEN "hi" ELSE t

\* A forward call that normalises its text first.
FirstLegCallStripped(s, t) ==
    [text |-> Strip(t), source |-> s.source_lang, target |-> s.target_lang]

\* rtt.py:125: the forward call.
FirstLegCall(s, t) ==
    [text |-> t, source |-> s.source_lang, target |-> s.target_lang]

\* A backward call in the forward direction.
SecondLegCallForward(s, t_t) ==
    [text |-> t_t, source |-> s.source_lang, target |-> s.target_lang]

\* rtt.py:126: the backward call.
SecondLegCall(s, t_t) ==
    [text |-> t_t, source |-> s.target_lang, target |-> s.source_lang]

\* A memoizing translate: a call the client already answered is not repeated.
TranslateMemoized(calls, call) ==
    IF \E j \in 1..Len(calls) :
          /\ calls[j].text = call.text
          /\ calls[j].source = call.source
          /\ calls[j].target = call.target
          /\ calls[j].result.kind = "returned"
    THEN calls
    ELSE Append(calls, [text |-> call.text, source |-> call.source,
                        target |-> call.target,
                        result |-> [kind |-> "pending", value |-> None]])

\* rtt.py:125-126: self.lt.translate(...) reaches the client every time.
Translate(calls, call) ==
    Append(calls, [text |-> call.text, source |-> call.source,
                   target |-> call.target, result |-> Pending])

\* The client's answer to the call it holds.
Answer(calls, result) == [calls EXCEPT ![Len(calls)].result = result]

\* rtt.py:126: rtt returns the second call's result.
RttReturn(t, t_t, r2) == Returned(r2)

\* An rtt that falls back to the intermediate text when the backward call fails.
RttRaiseFallback(e, t_t) == IF t_t = None THEN Raised(e) ELSE Returned(t_t)

\* rtt.py:125-126: no try/except, an error of translate leaves rtt as it is.
RttRaise(e, t_t) == Raised(e)

\* An rtt that flips the instance's direction in place.
RttSelfSwapped(s) ==
    [s EXCEPT !.source_lang = s.target_lang, !.target_lang = s.source_lang]

\* rtt.py:124-126: rtt assigns no attribute of self.
RttSelf(s) == s

\* What the stub client may answer: the identity stub returns its text
\* argument and never fails, the scripted stub answers anything.
StubResults(call) ==
    IF stub = "identity" THEN {call.text} ELSE Translations
StubErrors == IF stub = "identity" THEN {} ELSE Errors

Init ==
    /\ LT_ENDPOINT \in {None, "http://localhost:5000"}
    /\ LT_API_KEY \in {None, "key"}
    /\ stub \in {"identity", "scripted"}
    /\ pc = "new"
    /\ self = NoInstance
    /\ ctor = [args |-> [target_lang |-> None, source_lang |-> None,
                         url |-> None, api_key |-> None],
               outcome |-> "none", error |-> NoError]
    /\ text = None
    /\ text_t = None
    /\ first = 0
    /\ log = <<>>
    /\ outcomes = <<>>

\* rtt.py:89-122, LibreTranslateRTT(target_lang, source_lang, url, api_key)
Construct(target_lang, source_lang, url, api_key) ==
    LET s == Default(source_lang, "en")
        u == Default(url, LT_ENDPOINT)
        k == Default(api_key, LT_API_KEY)
        args == [target_lang |-> target_lang, source_lang |-> s, url |-> u,
                 api_key |-> k]
        err == Validate(s, target_lang, u)
    IN  /\ pc = "new"
        /\ IF err # NoError
           THEN /\ ctor' = [args |-> args, outcome |-> "raised", error |-> err]
                /\ pc' = "failed"
                /\ UNCHANGED self
           ELSE \E o \in ClientOutcomes(u) :
                  IF o = "created"
                  THEN /\ self' = LibreTranslateRTTInit(s, target_lang, u, k)
                       /\ ctor' = [args |-> args, outcome |-> "ok",
                                   error |-> NoError]
                       /\ pc' = "idle"
                  ELSE /\ ctor' = [args |-> args, outcome |-> "raised",
                                   error |-> ClientError]
                       /\ pc' = "failed"
                       /\ UNCHANGED self
        /\ UNCHANGED <<LT_ENDPOINT, LT_API_KEY, stub, text, text_t, first, log,
                       outcomes>>

ConstructSample ==
    /\ pc = "new"
    /\ \E target_lang \in SampleCodes, source_lang \in SampleCodes \cup {Omitted},
       url \in UrlValues \cup {None, Omitted},
       api_key \in ApiKeyValues \cup {None, Omitted} :
        Construct(target_lang, source_lang, url, api_key)

ConstructAny ==
    /\ pc = "new"
    /\ \E target_lang \in AllCodes, source_lang \in AllCodes \cup {Omitted},
       url \in UrlValues \cup {None, Omitted},
       api_key \in ApiKeyValues \cup {None, Omitted} :
        Construct(target_lang, source_lang, url, api_key)

\* rtt.py:124-125: rtt(t) issues the forward call.
RttCall(t) ==
    /\ pc = "idle"
    /\ Len(outcomes) < MaxInvocations
    /\ text' = t
    /\ text_t' = None
    /\ first' = Len(log) + 1
    /\ log' = Translate(log, FirstLegCall(self, t))
    /\ self' = RttSelf(self)
    /\ pc' = "leg1"
    /\ UNCHANGED <<LT_ENDPOINT, LT_API_KEY, stub, ctor, outcomes>>

\* rtt.py:125-126: the forward call returns r and the backward call is issued.
Leg1Returns(r) ==
    /\ pc = "leg1"
    /\ r \in StubResults(log[Len(log)])
    /\ text_t' = r
    /\ log' = Translate(Answer(log, Returned(r)), SecondLegCall(self, r))
    /\ self' = RttSelf(self)
    /\ pc' = "leg2"
    /\ UNCHANGED <<LT_ENDPOINT, LT_API_KEY, stub, ctor, text, first, outcomes>>

\* rtt.py:125: the forward call raises e.
Leg1Raises(e) ==
    /\ pc = "leg1"
    /\ e \in StubErrors
    /\ log' = Answer(log, Raised(e))
    /\ outcomes' = Append(outcomes,
          [text |-> text, first |-> first, result |-> RttRaise(e, text_t)])
    /\ self' = RttSelf(self)
    /\ pc' = "idle"
    /\ UNCHANGED <<LT_ENDPOINT, LT_API_KEY, stub, ctor, text, text_t, first>>

\* rtt.py:126: the backward call returns r, which rtt returns.
Leg2Returns(r) ==
    /\ pc = "leg2"
    /\ r \in StubResults(log[Len(log)])
    /\ log' = Answer(log, Returned(r))
    /\ outcomes' = Append(outcomes,
          [text |-> text, first |-> first, result |-> RttReturn(text, text_t, r)])
    /\ self' = RttSelf(self)
    /\ pc' = "idle"
    /\ UNCHANGED <<LT_ENDPOINT, LT_API_KEY, stub, ctor, text, text_t, first>>

\* rtt.py:126: the backward call raises e.
Leg2Raises(e) ==
    /\ pc = "leg2"
    /\ e \in StubErrors
    /\ log' = Answer(log, Raised(e))
    /\ outcomes' = Append(outcomes,
          [text |-> text, first |-> first, result |-> RttRaise(e, text_t)])
    /\ self' = RttSelf(self)
    /\ pc' = "idle"
    /\ UNCHANGED <<LT_ENDPOINT, LT_API_KEY, stub, ctor, text, text_t, first>>

Rtt == pc = "idle" /\ \E t \in Texts : RttCall(t)
ForwardReturns ==
    pc = "leg1" /\ \E r \in StubResults(log[Len(log)]) : Leg1Returns(r)
ForwardRaises == pc = "leg1" /\ \E e \in StubErrors : Leg1Raises(e)
BackwardReturns ==
    pc = "leg2" /\ \E r \in StubResults(log[Len(log)]) : Leg2Returns(r)
BackwardRaises == pc = "leg2" /\ \E e \in StubErrors : Leg2Raises(e)

Next ==
    \/ ConstructSample
    \/ Rtt
    \/ ForwardReturns
    \/ ForwardRaises
    \/ BackwardReturns
    \/ BackwardRaises

Spec == Init /\ [][Next]_vars

\* Construction alone, over every supported code.
NextCtor == ConstructAny

SpecCtor == Init /\ [][NextCtor]_vars

\* ------------------------------------------------------------ properties

\* A construction succeeded: an instance exists.
Constructed == pc \in {"idle", "leg1", "leg2"}

\* A construction was attempted.
Attempted == ctor.outcome # "none"

\* The calls of the i-th finished invocation are log[FirstCall(i)..LastCall(i)].
FirstCall(i) == outcomes[i].first
LastCall(i) ==
    IF i < Len(outcomes) THEN outcomes[i + 1].first - 1
    ELSE IF pc = "idle" THEN Len(log) ELSE first - 1

\* A call of the i-th finished invocation failed.
SomeCallFailed(i) ==
    \E j \in FirstCall(i)..LastCall(i) : log[j].result.kind = "raised"

\* C1: an rtt(text) on an instance constructed with (s, t), none of whose
\* calls fails, issues exactly two calls, translate(text, s, t) answered r1
\* and then translate(r1, t, s) answered r2, and returns exactly r2.
C1_TwoCallsInOrder ==
    \A i \in 1..Len(outcomes) :
        LET f == FirstCall(i)
        IN  ~SomeCallFailed(i) =>
              /\ LastCall(i) = f + 1
              /\ log[f].text = outcomes[i].text
              /\ log[f].source = ctor.args.source_lang
              /\ log[f].target = ctor.args.target_lang
              /\ log[f].result.kind = "returned"
              /\ log[f + 1].text = log[f].result.value
              /\ log[f + 1].source = ctor.args.target_lang
              /\ log[f + 1].target = ctor.args.source_lang
              /\ log[f + 1].result.kind = "returned"
              /\ outcomes[i].result = Returned(log[f + 1].result.value)

\* C1's case: with distinct languages, an rtt whose two answers differ from
\* each other and from its text has returned.
C1_Witness ==
    /\ pc = "idle"
    /\ Len(outcomes) = 1
    /\ ctor.args.source_lang # ctor.args.target_lang
    /\ Len(log) = 2
    /\ outcomes[1].text = " hi"
    /\ log[1].result = Returned("salut")
    /\ log[2].result = Returned("")
    /\ outcomes[1].result = Returned("")

\* C2: when a translate call raises during rtt, the outcome of rtt is that
\* exact error, the failing call is the invocation's last one (no second call
\* after a failed first leg, no retry of a failed second leg), and no text is
\* returned; a running invocation holds no failed call.
C2_ErrorPropagates ==
    /\ \A i \in 1..Len(outcomes) :
          LET f == FirstCall(i)
              l == LastCall(i)
          IN  SomeCallFailed(i) =>
                /\ l <= f + 1
                /\ log[l].result.kind = "raised"
                /\ \A j \in f..(l - 1) : log[j].result.kind = "returned"
                /\ outcomes[i].result = Raised(log[l].result.value)
    /\ pc \in {"leg1", "leg2"} =>
          \A j \in first..Len(log) : log[j].result.kind # "raised"

\* C2's case: one invocation failed on its first leg, the next one on its
\* second leg after an intermediate text was obtained.
C2_Witness ==
    /\ pc = "idle"
    /\ Len(outcomes) = 2
    /\ Len(log) = 3
    /\ log[1].result = Raised("ConnectionError")
    /\ outcomes[1].result = Raised("ConnectionError")
    /\ log[2].result = Returned("salut")
    /\ log[3].result = Raised("HTTPError")
    /\ outcomes[2].result = Raised("HTTPError")

\* C7: with a client whose translate returns its text argument unchanged,
\* rtt(text) returns exactly text, for every text and every language pair.
C7_RoundTripIdentity ==
    stub = "identity" =>
        \A i \in 1..Len(outcomes) :
            outcomes[i].result = Returned(outcomes[i].text)

\* C7's case: under the identity client the empty text and a text with
\* leading whitespace have both made the round trip.
C7_Witness ==
    /\ stub = "identity"
    /\ Len(outcomes) = 2
    /\ outcomes[1].text = ""
    /\ outcomes[2].text = " hi"
    /\ outcomes[2].result.kind = "returned"

\* C9: after n invocations of rtt that all completed without error, the
\* client has received exactly 2n calls, the forward and the backward call of
\* each invocation in turn, also when an invocation repeats an earlier input.
C9_NoCaching ==
    ( /\ pc = "idle"
      /\ \A i \in 1..Len(outcomes) : outcomes[i].result.kind = "returned" ) =>
        /\ Len(log) = 2 * Len(outcomes)
        /\ \A i \in 1..Len(outcomes) :
              /\ log[2 * i - 1].text = outcomes[i].text
              /\ log[2 * i - 1].source = self.source_lang
              /\ log[2 * i - 1].target = self.target_lang
              /\ log[2 * i].source = self.target_lang
              /\ log[2 * i].target = self.source_lang

\* C9's case: the same text was round-tripped twice with the same answers.
C9_Witness ==
    /\ pc = "idle"
    /\ Len(outcomes) = 2
    /\ outcomes[1].text = outcomes[2].text
    /\ outcomes[1].result.kind = "returned"
    /\ outcomes[2].result = outcomes[1].result
    /\ Len(log) = 4
    /\ log[3].text = log[1].text
    /\ log[3].result = log[1].result
    /\ log[4].text = log[2].text

\* C10: whatever rtt invocations have run or are running, the instance's
\* source_lang, target_lang and client handle are the values fixed at
\* construction, and every call carries these two codes.
C10_ConfigurationFixed ==
    Constructed =>
        /\ self.source_lang = ctor.args.source_lang
        /\ self.target_lang = ctor.args.target_lang
        /\ self.lt.url = ctor.args.url
        /\ self.lt.api_key = ctor.args.api_key
        /\ \A j \in 1..Len(log) :
              {log[j].source, log[j].target}
                  = {ctor.args.source_lang, ctor.args.target_lang}

\* C10's case: a successful and a failing invocation have run on an instance
\* with distinct languages.
C10_Witness ==
    /\ pc = "idle"
    /\ self.source_lang # self.target_lang
    /\ Len(outcomes) = 2
    /\ outcomes[1].result.kind = "returned"
    /\ outcomes[2].result.kind = "raised"

\* The supported codes as the documentation enumerates them.
EnumeratedCodes ==
    { "ar", "az", "bg", "bn", "ca", "cs", "da", "de", "el", "en", "eo", "es",
      "et", "fa", "fi", "fr", "ga", "he", "hi", "hu", "id", "it", "ja", "ko",
      "lt", "lv", "ms", "nb", "nl", "pl", "pt", "ro", "ru", "sk", "sl", "sq",
      "sr", "sv", "th", "tl", "tr", "uk", "ur", "vi", "zh", "zt" }

\* The construction produced an instance holding exactly the given codes.
Succeeded ==
    /\ ctor.outcome = "ok"
    /\ pc = "idle"
    /\ self.source_lang = ctor.args.source_lang
    /\ self.target_lang = ctor.args.target_lang

\* The construction raised and left no instance and no client handle.
FailedWith(type) ==
    /\ ctor.outcome = "raised"
    /\ ctor.error.type = type
    /\ pc = "failed"
    /\ self = NoInstance

\* An error message contains a code: it names it or lists it as valid.
Contains(error, x) == x = error.invalid \/ x \in error.valid

\* C3 as stated: with a non-null url and two supported codes, construction
\* succeeds and stores exactly those codes.
C3_AsStated ==
    ( /\ Attempted
      /\ ctor.args.url # None
      /\ ctor.args.source_lang \in LT_LANGUAGES
      /\ ctor.args.target_lang \in LT_LANGUAGES ) => Succeeded

\* C3, amended: with a url that is neither null nor empty and two supported
\* codes, construction succeeds and stores exactly those codes, also when
\* neither code is "en" and when the two codes are equal.
C3_SupportedPairConstructs ==
    ( /\ Attempted
      /\ ctor.args.url \notin {None, ""}
      /\ ctor.args.source_lang \in LT_LANGUAGES
      /\ ctor.args.target_lang \in LT_LANGUAGES ) => Succeeded

\* C3's case: an instance was constructed from a pair of equal codes without
\* the anchor.
C3_Witness ==
    /\ Succeeded
    /\ ctor.args.url = "http://localhost:5000"
    /\ self.source_lang = "de"
    /\ self.target_lang = "de"

\* C4 as stated: with a non-null url, every unsupported code given as
\* source_lang or target_lang makes construction fail with a ValueError whose
\* message contains that code, and no client handle is created.
C4_AsStated ==
    \A x \in {ctor.args.source_lang, ctor.args.target_lang} \ LT_LANGUAGES :
        (Attempted /\ ctor.args.url # None) =>
            FailedWith("ValueError") /\ Contains(ctor.error, x)

\* C4, amended: with a non-null url and an unsupported code on either side,
\* construction fails with the invalid-language ValueError, which lists the
\* supported set and names source_lang when that one is unsupported and
\* target_lang otherwise; no client handle is created.
C4_FirstInvalidCodeNamed ==
    ( /\ Attempted
      /\ ctor.args.url # None
      /\ \/ ctor.args.source_lang \notin LT_LANGUAGES
         \/ ctor.args.target_lang \notin LT_LANGUAGES ) =>
        /\ FailedWith("ValueError")
        /\ ctor.error.text = "Invalid language"
        /\ ctor.error.valid = LT_LANGUAGES
        /\ ctor.args.source_lang \notin LT_LANGUAGES =>
              ctor.error.invalid = ctor.args.source_lang
        /\ ctor.args.source_lang \in LT_LANGUAGES =>
              ctor.error.invalid = ctor.args.target_lang

\* C4's case: both codes are unsupported and differ; source_lang is named.
C4_Witness ==
    /\ FailedWith("ValueError")
    /\ ctor.args.url = "http://localhost:5000"
    /\ ctor.args.source_lang = "EN"
    /\ ctor.args.target_lang = "xx"
    /\ ctor.error.invalid = "EN"

\* C5 as stated: with url None or the empty string, construction fails with
\* the configuration error and produces no instance.
C5_AsStated ==
    (Attempted /\ ctor.args.url \in {None, ""}) =>
        FailedWith("ValueError") /\ ctor.error.text = "url must be given"

\* C5, amended: with url None, construction fails with the configuration
\* error and produces no instance; the empty string passes the url check, so
\* a construction with it never ends in the configuration error.
C5_OnlyNullUrlRejected ==
    /\ (Attempted /\ ctor.args.url = None) =>
          FailedWith("ValueError") /\ ctor.error.text = "url must be given"
    /\ (Attempted /\ ctor.args.url = "") =>
          ctor.error.text # "url must be given"

\* C5's case: a construction with the empty url went on to the language
\* check and failed there.
C5_Witness ==
    /\ ctor.args.url = ""
    /\ FailedWith("ValueError")
    /\ ctor.error.text = "Invalid language"

\* C6: with url None, whether given or defaulted from an unset environment,
\* construction fails with the "url must be given" error whatever the codes
\* are, and creates no client handle; and no construction, failed or
\* successful, issues a translate call.
C6_UrlCheckedFirst ==
    /\ (Attempted /\ ctor.args.url = None) =>
          /\ ctor.error = UrlError
          /\ ctor.outcome = "raised"
          /\ pc = "failed"
          /\ self.lt = NoInstance.lt
    /\ (pc \in {"new", "failed"} \/ (pc = "idle" /\ outcomes = <<>>)) =>
          log = <<>>

\* C6's case: url None together with two unsupported codes.
C6_Witness ==
    /\ pc = "failed"
    /\ ctor.args.url = None
    /\ ctor.args.source_lang = "xx"
    /\ ctor.args.target_lang = "xx"
    /\ log = <<>>

\* The construction failed on a code: its error lists the set it validates
\* against.
ListsValidSet == ctor.outcome = "raised" /\ ctor.error.text = "Invalid language"

\* C8 as stated: the set the codes are validated against holds exactly 44
\* codes and is the enumerated set.
C8_AsStated ==
    ListsValidSet =>
        Cardinality(ctor.error.valid) = 44 /\ ctor.error.valid = EnumeratedCodes

\* C8, amended: the set the codes are validated against holds exactly 46
\* codes and is the enumerated set: the invalid-language error lists it, and
\* with a usable url a construction succeeds exactly when both codes are
\* enumerated.
C8_SupportedSet ==
    /\ ListsValidSet =>
          /\ Cardinality(ctor.error.valid) = 46
          /\ ctor.error.valid = EnumeratedCodes
    /\ (Attempted /\ ctor.args.url \notin {None, ""}) =>
          ( ctor.outcome = "ok" <=>
              /\ ctor.args.source_lang \in EnumeratedCodes
              /\ ctor.args.target_lang \in EnumeratedCodes )

\* C8's case: the first and the last enumerated code were accepted.
C8_Witness ==
    /\ Succeeded
    /\ ctor.args.url = "http://localhost:5000"
    /\ self.source_lang = "ar"
    /\ self.target_lang = "zt"

====
